---- MODULE Spec2Model ----
(***************************************************************************)
(* OS2mo-init: reconciliation of the classes of a remote MO registry with  *)
(* a desired configuration.                                                *)
(*                                                                         *)
(* The Fetcher (get_root_org, get_facets, get_classes_for_facet,           *)
(* get_classes) is modelled from src/os2mo_init/mo.py.  The Reconciler     *)
(* (ensure_classes) and the remote registry's semantics of the create and  *)
(* update mutations are modelled from spec.md sections 4.2 and 6; the      *)
(* payload of the mutation calls is the one src/tests/test_classes.py      *)
(* expects.                                                                *)
(*                                                                         *)
(* Python dicts are ordered: a dict is a sequence of [key, val] records    *)
(* with distinct keys, in insertion order.  Identifiers are opaque tokens: *)
(* the str <-> UUID conversions of the code are not modelled.              *)
(***************************************************************************)
EXTENDS Integers, Sequences, FiniteSets, TLC

\* ------------------------------------------------------------------ bounds
\* Number of successive invocations of the tool.
MaxRuns == 2
\* Number of classes in the remote registry before the first run.
MaxRemoteClasses == 2
\* Number of (facet, class) pairs in the desired configuration.
MaxDesiredClasses == 2
\* Number of error entries a TransportQueryError carries.
MaxErrors == 2

Runs == 1..MaxRuns
FacetKeys == {"f1", "f2"}
ClassKeys == {"a", "b"}
OrgUuids == {"org1"}
None == "None"

\* ----------------------------------------------------------- ordered dicts
DictHas(d, k) == \E i \in 1..Len(d) : d[i].key = k

DictGet(d, k) == d[CHOOSE i \in 1..Len(d) : d[i].key = k].val

DictPut(d, k, v) ==
    IF DictHas(d, k)
    THEN [i \in 1..Len(d) |-> IF d[i].key = k THEN [key |-> k, val |-> v] ELSE d[i]]
    ELSE Append(d, [key |-> k, val |-> v])

DictKeys(d) == [i \in 1..Len(d) |-> d[i].key]

DictValues(d) == [i \in 1..Len(d) |-> d[i].val]

\* A dict comprehension {key(x): val(x) for x in items}, where items is a
\* sequence of [key, val] records: a later item with the same key replaces
\* the value of the earlier one and keeps its position.
RECURSIVE DictComprehension(_, _)
DictComprehension(items, n) ==
    IF n = 0 THEN <<>>
    ELSE DictPut(DictComprehension(items, n - 1), items[n].key, items[n].val)

\* ------------------------------------------------------ the remote registry
\* remote is a sequence of facets [uuid, user_key, classes], classes a
\* sequence of [uuid, user_key, name, scope].
FacetUuid(f) == <<"facet", f>>
OldName == <<"name", "old">>
OldScope == <<"scope", "old">>

InjSeqs(S, n) ==
    UNION {{s \in [1..k -> S] : \A i, j \in 1..k : s[i] = s[j] => i = j} : k \in 0..n}

RECURSIVE ClassesBefore(_, _, _)
ClassesBefore(ord, ks, n) ==
    IF n = 0 THEN 0 ELSE ClassesBefore(ord, ks, n - 1) + Len(ks[ord[n]])

MkRemote(ord, ks) ==
    [i \in 1..Len(ord) |->
        [uuid |-> FacetUuid(ord[i]),
         user_key |-> ord[i],
         classes |-> [j \in 1..Len(ks[ord[i]]) |->
                        [uuid |-> ClassesBefore(ord, ks, i - 1) + j,
                         user_key |-> ks[ord[i]][j],
                         name |-> OldName,
                         scope |-> OldScope]]]]

\* The facets in their order, and the class keys of each facet in their
\* order: natural keys are unique among the facets and among the classes of
\* one facet, and the layout holds at most maxTotal classes.
Layouts(maxTotal) ==
    {x \in InjSeqs(FacetKeys, Cardinality(FacetKeys))
            \X [FacetKeys -> InjSeqs(ClassKeys, maxTotal)] :
        /\ \A f \in FacetKeys :
              (\A i \in 1..Len(x[1]) : x[1][i] # f) => x[2][f] = <<>>
        /\ ClassesBefore(x[1], x[2], Len(x[1])) <= maxTotal}

\* The registries a run can meet.
RemoteStates == {MkRemote(x[1], x[2]) : x \in Layouts(MaxRemoteClasses)}

\* ------------------------------------------------ the desired configuration
\* config_classes: dict facet key -> (dict class key -> [title, scope]).
Title(f, k) == <<"title", f, k>>
Scope(f, k) == <<"scope", f, k>>

MkConfig(ord, ks) ==
    [i \in 1..Len(ord) |->
        [key |-> ord[i],
         val |-> [j \in 1..Len(ks[ord[i]]) |->
                    [key |-> ks[ord[i]][j],
                     val |-> [title |-> Title(ord[i], ks[ord[i]][j]),
                              scope |-> Scope(ord[i], ks[ord[i]][j])]]]]]

Configs == {MkConfig(x[1], x[2]) : x \in Layouts(MaxDesiredClasses)}

\* The (facet key, class key) pairs of a configuration in iteration order.
RECURSIVE Pairs(_, _)
Pairs(cfg, n) ==
    IF n = 0 THEN <<>>
    ELSE Pairs(cfg, n - 1)
         \o [j \in 1..Len(cfg[n].val) |-> <<cfg[n].key, cfg[n].val[j].key>>]

\* ------------------------------------------------------------------- errors
UNCONFIGURED == "ErrorCodes.E_ORG_UNCONFIGURED"
Messages == {UNCONFIGURED, "ErrorCodes.E_NOT_FOUND"}

TransportQueryError(errors) == [type |-> "TransportQueryError", errors |-> errors]

TransportQueryErrors ==
    {TransportQueryError(es) :
        es \in UNION {[1..k -> [message : Messages]] : k \in 1..MaxErrors}}

TransportServerError == [type |-> "TransportServerError"]

ConfigurationError(k) == [type |-> "ConfigurationError", key |-> k]

NoError == [type |-> "NoError"]

\* ---------------------------------------------------------------- the state
VARIABLES
    remote,      \* the remote registry
    rootQuery,   \* the outcome the transport gave the root-organisation query
    rootOrg,     \* what get_root_org did with it
    configFile,  \* the desired configuration the operator runs the tool with
    run          \* per invocation: the position and locals of the run

vars == <<remote, rootQuery, rootOrg, configFile, run>>

IdleRun ==
    [pc |-> "idle", before |-> <<>>, facets |-> <<>>, pending |-> {},
     completed |-> <<>>, responses |-> <<>>, classes |-> <<>>,
     desired |-> <<>>, fi |-> 0, ci |-> 0, calls |-> <<>>, error |-> NoError,
     tree |-> <<>>]

Init ==
    /\ remote \in RemoteStates
    /\ rootQuery = [called |-> FALSE]
    /\ rootOrg = [kind |-> "not_called"]
    /\ configFile = [loaded |-> FALSE, classes |-> <<>>]
    /\ run = [p \in Runs |-> IdleRun]

\* -------------------------------------------------------------- the Fetcher
\* The outcomes of the root-organisation query: a result, or an exception.
RootOrgOutcomes ==
    {[ok |-> TRUE, result |-> [org |-> [uuid |-> u]]] : u \in OrgUuids}
    \cup {[ok |-> FALSE, exc |-> e] :
            e \in TransportQueryErrors \cup {TransportServerError}}

\* get_root_org deciding on the last error of the exception, not the first.
get_root_org_last_error(outcome) ==
    IF outcome.ok
    THEN [kind |-> "return", value |-> outcome.result.org.uuid]
    ELSE IF outcome.exc.type = "TransportQueryError"
         THEN IF outcome.exc.errors[Len(outcome.exc.errors)].message = UNCONFIGURED
              THEN [kind |-> "return", value |-> None]
              ELSE [kind |-> "raise", exc |-> outcome.exc]
         ELSE [kind |-> "raise", exc |-> outcome.exc]

\* get_root_org taking every TransportQueryError for the unconfigured
\* organisation.
get_root_org_swallowing(outcome) ==
    IF outcome.ok
    THEN [kind |-> "return", value |-> outcome.result.org.uuid]
    ELSE IF outcome.exc.type = "TransportQueryError"
         THEN [kind |-> "return", value |-> None]
         ELSE [kind |-> "raise", exc |-> outcome.exc]

\* get_root_org looking for the unconfigured organisation among all errors
\* of the exception.
get_root_org_any_error(outcome) ==
    IF outcome.ok
    THEN [kind |-> "return", value |-> outcome.result.org.uuid]
    ELSE IF outcome.exc.type = "TransportQueryError"
         THEN IF \E i \in 1..Len(outcome.exc.errors) :
                    outcome.exc.errors[i].message = UNCONFIGURED
              THEN [kind |-> "return", value |-> None]
              ELSE [kind |-> "raise", exc |-> outcome.exc]
         ELSE [kind |-> "raise", exc |-> outcome.exc]

\* get_root_org: the uuid of the result; None when a TransportQueryError's
\* first error has the message of the unconfigured organisation; any other
\* exception is raised again.
get_root_org(outcome) ==
    IF outcome.ok
    THEN [kind |-> "return", value |-> outcome.result.org.uuid]
    ELSE IF outcome.exc.type = "TransportQueryError"
         THEN IF outcome.exc.errors[1].message = UNCONFIGURED
              THEN [kind |-> "return", value |-> None]
              ELSE [kind |-> "raise", exc |-> outcome.exc]
         ELSE [kind |-> "raise", exc |-> outcome.exc]

\* GET /service/o/{organisation_uuid}/f/ : the facets of the organisation.
FacetsResponse(reg, organisation_uuid) ==
    [i \in 1..Len(reg) |-> [user_key |-> reg[i].user_key, uuid |-> reg[i].uuid]]

\* get_facets pairing each user key with the uuid of another facet of the
\* response.
get_facets_crossed(reg, organisation_uuid) ==
    LET facets == FacetsResponse(reg, organisation_uuid)
    IN  DictComprehension(
            [i \in 1..Len(facets) |->
                [key |-> facets[i].user_key,
                 val |-> facets[Len(facets) + 1 - i].uuid]],
            Len(facets))

\* get_facets: {f["user_key"]: UUID(f["uuid"]) for f in facets}.
get_facets(reg, organisation_uuid) ==
    LET facets == FacetsResponse(reg, organisation_uuid)
    IN  DictComprehension(
            [i \in 1..Len(facets) |->
                [key |-> facets[i].user_key, val |-> facets[i].uuid]],
            Len(facets))

\* get_classes_for_facet returning the classes of every facet.
RECURSIVE ClassesUpTo(_, _)
ClassesUpTo(reg, n) ==
    IF n = 0 THEN <<>> ELSE ClassesUpTo(reg, n - 1) \o reg[n].classes

get_classes_for_any_facet(reg, facet_uuid) == ClassesUpTo(reg, Len(reg))

\* get_classes_for_facet: GET /service/f/{facet_uuid}/ , the items of the
\* facet with that uuid in the order the registry lists them.
get_classes_for_facet(reg, facet_uuid) ==
    LET i == CHOOSE i \in 1..Len(reg) : reg[i].uuid = facet_uuid
    IN  reg[i].classes

\* A join that ends as soon as one of the queries has completed.
AnyGathered(r) == r.facets = <<>> \/ r.completed # <<>>

\* await asyncio.gather(...): every dispatched query has completed.
AllGathered(r) == r.pending = {}

\* A gather handing the results over in the order of completion.
GatherInCompletionOrder(responses, completed) ==
    [i \in 1..Len(completed) |-> responses[completed[i]]]

\* asyncio.gather: the results in the order of the awaitables, whatever the
\* order of completion.
Gather(responses, completed) == [i \in 1..Len(completed) |-> responses[i]]

\* get_classes indexing every class of a facet under the uuid of the first
\* class of the facet.
get_classes_first_uuid(facets, gathered) ==
    LET keys == DictKeys(facets)
        n == IF Len(keys) < Len(gathered) THEN Len(keys) ELSE Len(gathered)
        index(facet_classes) ==
            DictComprehension(
                [j \in 1..Len(facet_classes) |->
                    [key |-> facet_classes[j].user_key,
                     val |-> facet_classes[1].uuid]],
                Len(facet_classes))
    IN  DictComprehension(
            [i \in 1..n |-> [key |-> keys[i], val |-> index(gathered[i])]], n)

\* get_classes leaving the last class of every facet out of the index.
get_classes_short(facets, gathered) ==
    LET keys == DictKeys(facets)
        n == IF Len(keys) < Len(gathered) THEN Len(keys) ELSE Len(gathered)
        index(facet_classes) ==
            DictComprehension(
                [j \in 1..Len(facet_classes) |->
                    [key |-> facet_classes[j].user_key,
                     val |-> facet_classes[j].uuid]],
                IF facet_classes = <<>> THEN 0 ELSE Len(facet_classes) - 1)
    IN  DictComprehension(
            [i \in 1..n |-> [key |-> keys[i], val |-> index(gathered[i])]], n)

\* get_classes: the gathered responses zipped with the facet keys, each list
\* of classes turned into a dict class key -> uuid.
get_classes(facets, gathered) ==
    LET keys == DictKeys(facets)
        n == IF Len(keys) < Len(gathered) THEN Len(keys) ELSE Len(gathered)
        index(facet_classes) ==
            DictComprehension(
                [j \in 1..Len(facet_classes) |->
                    [key |-> facet_classes[j].user_key,
                     val |-> facet_classes[j].uuid]],
                Len(facet_classes))
    IN  DictComprehension(
            [i \in 1..n |-> [key |-> keys[i], val |-> index(gathered[i])]], n)

\* ----------------------------------------------- the registry's mutations
\* The identifier the registry assigns to a new class.
RECURSIVE MaxUuid(_, _)
MaxUuid(reg, n) ==
    IF n = 0 THEN 0
    ELSE LET m == MaxUuid(reg, n - 1)
             c == reg[n].classes
             here == IF c = <<>> THEN 0
                     ELSE CHOOSE u \in {c[j].uuid : j \in 1..Len(c)} :
                            \A j \in 1..Len(c) : c[j].uuid <= u
         IN  IF here > m THEN here ELSE m

NewUuid(reg) == MaxUuid(reg, Len(reg)) + 1

\* Create: a new class at the end of the facet with the given identifier.
ApplyCreate(reg, v) ==
    [i \in 1..Len(reg) |->
        IF reg[i].uuid = v.facet_uuid
        THEN [reg[i] EXCEPT !.classes =
                Append(@, [uuid |-> NewUuid(reg), user_key |-> v.user_key,
                           name |-> v.name, scope |-> v.scope])]
        ELSE reg[i]]

\* Update: the class with the given identifier gets the natural key, title
\* and scope of the payload, in place.
ApplyUpdate(reg, v) ==
    [i \in 1..Len(reg) |->
        [reg[i] EXCEPT !.classes =
            [j \in 1..Len(@) |->
                IF @[j].uuid = v.uuid
                THEN [@[j] EXCEPT !.user_key = v.user_key, !.name = v.name,
                                  !.scope = v.scope]
                ELSE @[j]]]]

Apply(reg, call) ==
    IF call.doc = "create" THEN ApplyCreate(reg, call.vars)
    ELSE ApplyUpdate(reg, call.vars)

\* ----------------------------------------------------------- the Reconciler
UpdateCall(facet_uuid, uuid, user_key, name, scope) ==
    [doc |-> "update",
     vars |-> [facet_uuid |-> facet_uuid, uuid |-> uuid, user_key |-> user_key,
               name |-> name, scope |-> scope]]

CreateCall(facet_uuid, user_key, name, scope) ==
    [doc |-> "create",
     vars |-> [facet_uuid |-> facet_uuid, user_key |-> user_key,
               name |-> name, scope |-> scope]]

\* The mutation for class ci of facet fi of the desired configuration:
\* an update with the fetched identifier when the fetched index of the facet
\* has the class key, a create under the facet otherwise.
MutationCall(desired, facets, classes, fi, ci) ==
    LET facet_user_key == desired[fi].key
        class_user_key == desired[fi].val[ci].key
        class == desired[fi].val[ci].val
        existing == DictGet(classes, facet_user_key)
    IN  IF DictHas(existing, class_user_key)
        THEN UpdateCall(DictGet(facets, facet_user_key),
                        DictGet(existing, class_user_key),
                        class_user_key, class.title, class.scope)
        ELSE CreateCall(DictGet(facets, facet_user_key),
                        class_user_key, class.title, class.scope)

\* The loops passing over a facet without remote counterpart.
RECURSIVE SettleSkippingMissing(_, _, _, _)
SettleSkippingMissing(desired, classes, fi, ci) ==
    IF fi > Len(desired)
    THEN [pc |-> "done", fi |-> fi, ci |-> 1, error |-> NoError]
    ELSE IF ~DictHas(classes, desired[fi].key) \/ ci > Len(desired[fi].val)
    THEN SettleSkippingMissing(desired, classes, fi + 1, 1)
    ELSE [pc |-> "reconcile", fi |-> fi, ci |-> ci, error |-> NoError]

\* Where the loops over the desired configuration stop next, from class ci
\* of facet fi on: at the next class to write, at a facet without remote
\* counterpart (an error), or at the end.
RECURSIVE Settle(_, _, _, _)
Settle(desired, classes, fi, ci) ==
    IF fi > Len(desired)
    THEN [pc |-> "done", fi |-> fi, ci |-> 1, error |-> NoError]
    ELSE IF ci = 1 /\ ~DictHas(classes, desired[fi].key)
    THEN [pc |-> "raised", fi |-> fi, ci |-> 1, error |-> ConfigurationError(desired[fi].key)]
    ELSE IF ci > Len(desired[fi].val)
    THEN Settle(desired, classes, fi + 1, 1)
    ELSE [pc |-> "reconcile", fi |-> fi, ci |-> ci, error |-> NoError]

\* ------------------------------------------------------------------ actions
Finished(r) == r.pc \in {"done", "raised"}

\* The single operator: one invocation at a time, one after the other.
SingleOperator(p) ==
    /\ \A q \in Runs \ {p} : run[q].pc = "idle" \/ Finished(run[q])
    /\ p > 1 => Finished(run[p - 1])

GetRootOrg ==
    /\ ~rootQuery.called
    /\ \E outcome \in RootOrgOutcomes :
        /\ rootQuery' = [called |-> TRUE, outcome |-> outcome]
        /\ rootOrg' = get_root_org(outcome)
    /\ UNCHANGED <<remote, configFile, run>>

\* get_facets returns and get_classes dispatches one query per facet.
FetchFacets(p) ==
    /\ run[p].pc = "idle"
    /\ rootOrg.kind = "return"
    /\ rootOrg.value # None
    /\ LET facets == get_facets(remote, rootOrg.value)
       IN  run' = [run EXCEPT ![p] =
                [@ EXCEPT !.pc = "get_classes",
                          !.before = remote,
                          !.facets = facets,
                          !.pending = 1..Len(facets),
                          !.completed = <<>>,
                          !.responses = [i \in 1..Len(facets) |-> <<>>]]]
    /\ UNCHANGED <<remote, rootQuery, rootOrg, configFile>>

\* The operator starts an invocation when the one before it has ended.
GetFacets(p) ==
    /\ SingleOperator(p)
    /\ FetchFacets(p)

\* The query for the i-th facet completes.
ClassQueryDone(p, i) ==
    /\ run[p].pc = "get_classes"
    /\ i \in run[p].pending
    /\ run' = [run EXCEPT ![p] =
            [@ EXCEPT !.pending = @ \ {i},
                      !.completed = Append(@, i),
                      !.responses[i] =
                          get_classes_for_facet(remote, DictValues(run[p].facets)[i])]]
    /\ UNCHANGED <<remote, rootQuery, rootOrg, configFile>>

\* The configurations the operator can run the tool with: any one the first
\* time, the same one again afterwards.
ConfigChoices == IF configFile.loaded THEN {configFile.classes} ELSE Configs

\* Every query has completed: get_classes returns and ensure_classes walks
\* the desired configuration up to its first mutation.
EnsureClasses(p) ==
    /\ run[p].pc = "get_classes"
    /\ AllGathered(run[p])
    /\ \E config_classes \in ConfigChoices :
        LET classes == get_classes(run[p].facets,
                                   Gather(run[p].responses, run[p].completed))
            at == Settle(config_classes, classes, 1, 1)
        IN  /\ run' = [run EXCEPT ![p] =
                    [@ EXCEPT !.pc = at.pc, !.fi = at.fi, !.ci = at.ci,
                              !.error = at.error,
                              !.classes = classes,
                              !.desired = config_classes,
                              !.completed = <<>>,
                              !.responses = <<>>]]
            /\ configFile' = [loaded |-> TRUE, classes |-> config_classes]
    /\ UNCHANGED <<remote, rootQuery, rootOrg>>

\* The mutation for the current class succeeds: the registry applies it and
\* the run moves on.
MutationOk(p) ==
    /\ run[p].pc = "reconcile"
    /\ LET r == run[p]
           call == MutationCall(r.desired, r.facets, r.classes, r.fi, r.ci)
           at == Settle(r.desired, r.classes, r.fi, r.ci + 1)
       IN  /\ remote' = Apply(remote, call)
           /\ run' = [run EXCEPT ![p] =
                    [@ EXCEPT !.pc = at.pc, !.fi = at.fi, !.ci = at.ci,
                              !.error = at.error,
                              !.calls = Append(@, call @@ [raised |-> NoError])]]
    /\ UNCHANGED <<rootQuery, rootOrg, configFile>>

\* The failure of a mutation logged and the run going on with the next class.
MutationFailsAndContinues(p, exc) ==
    /\ run[p].pc = "reconcile"
    /\ LET r == run[p]
           call == MutationCall(r.desired, r.facets, r.classes, r.fi, r.ci)
           at == Settle(r.desired, r.classes, r.fi, r.ci + 1)
       IN  run' = [run EXCEPT ![p] =
                [@ EXCEPT !.pc = at.pc, !.fi = at.fi, !.ci = at.ci,
                          !.error = at.error,
                          !.calls = Append(@, call @@ [raised |-> exc])]]
    /\ UNCHANGED <<remote, rootQuery, rootOrg, configFile>>

\* The mutation for the current class fails in the transport: the exception
\* leaves ensure_classes.
MutationFails(p, exc) ==
    /\ run[p].pc = "reconcile"
    /\ LET r == run[p]
           call == MutationCall(r.desired, r.facets, r.classes, r.fi, r.ci)
       IN  run' = [run EXCEPT ![p] =
                [@ EXCEPT !.pc = "raised",
                          !.error = exc,
                          !.calls = Append(@, call @@ [raised |-> exc])]]
    /\ UNCHANGED <<remote, rootQuery, rootOrg, configFile>>

MutationErrors ==
    {TransportQueryError(<<[message |-> "ErrorCodes.E_NOT_FOUND"]>>)}

Next ==
    \/ GetRootOrg
    \/ \E p \in Runs : GetFacets(p)
    \/ \E p \in Runs : \E i \in 1..Cardinality(FacetKeys) : ClassQueryDone(p, i)
    \/ \E p \in Runs : EnsureClasses(p)
    \/ \E p \in Runs : MutationOk(p)
    \/ \E p \in Runs : \E exc \in MutationErrors : MutationFails(p, exc)

Spec == Init /\ [][Next]_vars

\* The invocations of the single operator, one after the other: the system
\* the claims about sequences of runs are stated for, and the counterpart of
\* SpecConcurrent below.
SpecSequential == Init /\ [][Next]_vars

\* ------------------------------------------------- vocabulary of the claims
Started(p) == run[p].pc # "idle"

\* The run has entered the Reconciler (its configuration is known).
Reconciling(p) == run[p].pc \in {"reconcile", "done", "raised"}

\* The registry as run p left it, or as it is while run p is the latest.
After(p) == IF p < MaxRuns /\ Started(p + 1) THEN run[p + 1].before ELSE remote

Desired(p) == Pairs(run[p].desired, Len(run[p].desired))

DesiredClass(p, pair) ==
    DictGet(DictGet(run[p].desired, pair[1]), pair[2])

\* The call is the update of class c under facet f to the desired class d.
IsUpdateOf(call, f, c, d) ==
    /\ call.doc = "update"
    /\ call.vars = [facet_uuid |-> f.uuid, uuid |-> c.uuid,
                    user_key |-> c.user_key, name |-> d.title, scope |-> d.scope]

\* The call is the creation of a class with key ck under facet f as the
\* desired class d, and carries no class identifier.
IsCreateOf(call, f, ck, d) ==
    /\ call.doc = "create"
    /\ "uuid" \notin DOMAIN call.vars
    /\ call.vars = [facet_uuid |-> f.uuid, user_key |-> ck,
                    name |-> d.title, scope |-> d.scope]

HasFacet(reg, fk) == \E i \in 1..Len(reg) : reg[i].user_key = fk

FacetOf(reg, fk) == reg[CHOOSE i \in 1..Len(reg) : reg[i].user_key = fk]

\* The classes with natural key ck under the facet with natural key fk.
ClassesAt(reg, fk, ck) ==
    IF HasFacet(reg, fk)
    THEN LET c == FacetOf(reg, fk).classes
         IN  {c[j] : j \in {j \in 1..Len(c) : c[j].user_key = ck}}
    ELSE {}

\* Every class of the registry with the natural key of its facet.
AllClasses(reg) ==
    UNION {{[facet |-> reg[i].user_key, class |-> reg[i].classes[j]] :
                j \in 1..Len(reg[i].classes)} : i \in 1..Len(reg)}

\* The (facet key, class key) pair a mutation call writes: the facet is the
\* one the registry keeps under the call's facet identifier.
CallPair(reg, call) ==
    <<IF \E i \in 1..Len(reg) : reg[i].uuid = call.vars.facet_uuid
      THEN reg[CHOOSE i \in 1..Len(reg) : reg[i].uuid = call.vars.facet_uuid].user_key
      ELSE "no such facet",
      call.vars.user_key>>

Failed(call) == call.raised # NoError

\* ------------------------------------------------------------------ claims
\* C1: the mutation calls of a run are, in order, the (facet key, class key)
\* pairs of the desired configuration in its iteration order: at any moment
\* the calls emitted so far are the first pairs of that order, and a run
\* that completes has emitted all of them.
C1_CallsInConfigurationOrder ==
    \A p \in Runs :
        LET calls == run[p].calls
            want == Desired(p)
        IN  /\ Len(calls) <= Len(want)
            /\ \A i \in 1..Len(calls) : CallPair(remote, calls[i]) = want[i]
            /\ run[p].pc = "done" => Len(calls) = Len(want)

\* A completed run that wrote two classes of one facet which the registry
\* listed in the opposite order.
C1_Witness ==
    \E p \in Runs :
        /\ run[p].pc = "done"
        /\ Len(run[p].desired) = 1
        /\ Len(run[p].calls) = 2
        /\ HasFacet(run[p].before, run[p].desired[1].key)
        /\ LET listed == FacetOf(run[p].before, run[p].desired[1].key).classes
           IN  /\ Len(listed) = 2
               /\ listed[1].user_key = run[p].calls[2].vars.user_key
               /\ listed[2].user_key = run[p].calls[1].vars.user_key

\* C2: the call for a desired class that the registry held under its facet
\* when the run fetched it is an update carrying that class's identifier,
\* the facet's identifier, the class key and the desired title and scope.
C2_UpdateReusesIdentifier ==
    \A p \in Runs :
        LET want == Desired(p)
        IN  \A i \in 1..Len(run[p].calls) :
                LET pair == want[i]
                    held == ClassesAt(run[p].before, pair[1], pair[2])
                IN  held # {} =>
                        \E c \in held :
                            IsUpdateOf(run[p].calls[i],
                                       FacetOf(run[p].before, pair[1]), c,
                                       DesiredClass(p, pair))

\* A run that issued an update for a class of the second facet listed.
C2_Witness ==
    \E p \in Runs : \E i \in 1..Len(run[p].calls) :
        /\ run[p].calls[i].doc = "update"
        /\ Len(run[p].before) = 2
        /\ run[p].calls[i].vars.facet_uuid = run[p].before[2].uuid
        /\ ClassesAt(run[p].before, Desired(p)[i][1], Desired(p)[i][2]) # {}

\* C3: the call for a desired class that the registry did not hold under
\* its facet when the run fetched it is a create carrying the facet's
\* identifier, the class key and the desired title and scope, and no class
\* identifier.
C3_CreateWithoutIdentifier ==
    \A p \in Runs :
        LET want == Desired(p)
        IN  \A i \in 1..Len(run[p].calls) :
                LET pair == want[i]
                IN  ClassesAt(run[p].before, pair[1], pair[2]) = {} =>
                        IsCreateOf(run[p].calls[i],
                                   FacetOf(run[p].before, pair[1]), pair[2],
                                   DesiredClass(p, pair))

\* A run that issued a create for a class key the other facet holds.
C3_Witness ==
    \E p \in Runs : \E i \in 1..Len(run[p].calls) :
        /\ run[p].calls[i].doc = "create"
        /\ ClassesAt(run[p].before, Desired(p)[i][1], Desired(p)[i][2]) = {}
        /\ \E x \in AllClasses(run[p].before) :
                x.class.user_key = Desired(p)[i][2]

\* C4: after a run that completed, every desired (facet, class) pair has a
\* class with that natural key under that facet whose title and scope are
\* the desired ones.
C4_DesiredStateReached ==
    \A p \in Runs :
        run[p].pc = "done" =>
            LET want == Desired(p)
                after == After(p)
            IN  \A i \in 1..Len(want) :
                    \E c \in ClassesAt(after, want[i][1], want[i][2]) :
                        /\ c.name = DesiredClass(p, want[i]).title
                        /\ c.scope = DesiredClass(p, want[i]).scope

\* A completed run that updated one class and created another.
C4_Witness ==
    \E p \in Runs :
        /\ run[p].pc = "done"
        /\ \E i, j \in 1..Len(run[p].calls) :
                /\ run[p].calls[i].doc = "update"
                /\ run[p].calls[j].doc = "create"

\* C5: when a completed run is followed by a run with the same
\* configuration, the second run raises no error of its own (only a
\* transport failure can end it), issues updates only, and when it
\* completes the registry is as the first run left it.
C5_SecondRunChangesNothing ==
    \A p \in Runs \ {1} :
        (/\ run[p - 1].pc = "done"
         /\ Reconciling(p)
         /\ run[p].desired = run[p - 1].desired) =>
            /\ \A i \in 1..Len(run[p].calls) : run[p].calls[i].doc = "update"
            /\ run[p].pc = "raised" =>
                    /\ run[p].calls # <<>>
                    /\ run[p].error = run[p].calls[Len(run[p].calls)].raised
                    /\ run[p].error.type # "ConfigurationError"
            /\ run[p].pc = "done" =>
                    /\ Len(run[p].calls) = Len(Desired(p))
                    /\ After(p) = run[p].before

\* A second completed run after a first one that created a class.
C5_Witness ==
    \E p \in Runs \ {1} :
        /\ run[p - 1].pc = "done"
        /\ run[p].pc = "done"
        /\ \E i \in 1..Len(run[p - 1].calls) : run[p - 1].calls[i].doc = "create"
        /\ Len(run[p].calls) = 2

\* C6: a run removes no facet and no class, and a class whose natural key
\* the desired configuration does not list for its facet keeps identifier,
\* natural key, title, scope and facet.
C6_NeverDelete ==
    \A p \in Runs :
        Started(p) =>
            LET before == run[p].before
                after == After(p)
                want == Desired(p)
            IN  /\ Len(after) = Len(before)
                /\ \A i \in 1..Len(before) :
                        /\ after[i].uuid = before[i].uuid
                        /\ after[i].user_key = before[i].user_key
                        /\ \A j \in 1..Len(before[i].classes) :
                            LET x == before[i].classes[j]
                                kept == after[i].classes
                            IN  /\ \E k \in 1..Len(kept) : kept[k].uuid = x.uuid
                                /\ (\A n \in 1..Len(want) :
                                        want[n] # <<before[i].user_key, x.user_key>>)
                                    => \E k \in 1..Len(kept) : kept[k] = x

\* A run that wrote to a facet holding a class the configuration does not
\* list for it.
C6_Witness ==
    \E p \in Runs :
        /\ Finished(run[p])
        /\ \E i \in 1..Len(run[p].calls) : \E x \in AllClasses(run[p].before) :
                /\ ~Failed(run[p].calls[i])
                /\ x.facet = CallPair(remote, run[p].calls[i])[1]
                /\ \A j \in 1..Len(Desired(p)) :
                        Desired(p)[j] # <<x.facet, x.class.user_key>>

\* C7: a run that completed issued exactly one mutation call for each
\* desired (facet, class) pair and none for any other pair.
C7_OneCallPerPair ==
    \A p \in Runs :
        run[p].pc = "done" =>
            LET calls == run[p].calls
                want == Desired(p)
                callsFor(pair) ==
                    {i \in 1..Len(calls) : CallPair(remote, calls[i]) = pair}
            IN  /\ Len(calls) = Len(want)
                /\ \A j \in 1..Len(want) : Cardinality(callsFor(want[j])) = 1
                /\ \A i \in 1..Len(calls) :
                        \E j \in 1..Len(want) : CallPair(remote, calls[i]) = want[j]

\* A completed run over two facets, one call each.
C7_Witness ==
    \E p \in Runs :
        /\ run[p].pc = "done"
        /\ Len(run[p].desired) = 2
        /\ Len(run[p].calls) = 2
        /\ run[p].calls[1].vars.facet_uuid # run[p].calls[2].vars.facet_uuid

\* The first facet of the desired configuration of run p that the registry
\* did not hold when the run fetched it (0 when it held them all).
FirstMissing(p) ==
    LET missing == {i \in 1..Len(run[p].desired) :
                        ~HasFacet(run[p].before, run[p].desired[i].key)}
    IN  IF missing = {} THEN 0
        ELSE CHOOSE i \in missing : \A j \in missing : i <= j

\* C8: a run whose desired configuration names a facet the registry does
\* not hold never completes and issues no call for that facet or a later
\* one; when it reaches that facet it raises the error for that facet key,
\* having issued the calls of the earlier facets, whose writes stay in the
\* registry.
C8_MissingFacetFailsFast ==
    \A p \in Runs :
        (Reconciling(p) /\ FirstMissing(p) # 0) =>
            LET k == FirstMissing(p)
                earlier == Pairs(run[p].desired, k - 1)
                after == After(p)
            IN  /\ run[p].pc # "done"
                /\ Len(run[p].calls) <= Len(earlier)
                /\ (/\ Len(run[p].calls) = Len(earlier)
                    /\ \A i \in 1..Len(run[p].calls) : ~Failed(run[p].calls[i]))
                    => /\ run[p].pc = "raised"
                       /\ run[p].error = ConfigurationError(run[p].desired[k].key)
                       /\ \A i \in 1..Len(earlier) :
                            \E c \in ClassesAt(after, earlier[i][1], earlier[i][2]) :
                                /\ c.name = DesiredClass(p, earlier[i]).title
                                /\ c.scope = DesiredClass(p, earlier[i]).scope

\* A run that wrote a class of the first facet and then met the missing
\* second facet.
C8_Witness ==
    \E p \in Runs :
        /\ run[p].pc = "raised"
        /\ run[p].error.type = "ConfigurationError"
        /\ FirstMissing(p) = 2
        /\ Len(run[p].calls) >= 1
        /\ run[p].desired[2].val # <<>>

\* C9: a mutation call that fails is the last call of its run: the run has
\* ended with the call's exception as its error, the call was issued once,
\* and the registry holds no write of it.
C9_TransportFailureAborts ==
    \A p \in Runs : \A i \in 1..Len(run[p].calls) :
        Failed(run[p].calls[i]) =>
            /\ i = Len(run[p].calls)
            /\ run[p].pc = "raised"
            /\ run[p].error = run[p].calls[i].raised
            /\ \A j \in 1..(i - 1) :
                    CallPair(remote, run[p].calls[j]) # CallPair(remote, run[p].calls[i])
            /\ LET pair == Desired(p)[i]
               IN  ClassesAt(After(p), pair[1], pair[2])
                        = ClassesAt(run[p].before, pair[1], pair[2])

\* A run that ended on the failure of its first call with a class still to
\* write.
C9_Witness ==
    \E p \in Runs :
        /\ run[p].pc = "raised"
        /\ Len(run[p].calls) = 1
        /\ Failed(run[p].calls[1])
        /\ Len(Desired(p)) > 1

\* C10: when the root-organisation query fails with a TransportQueryError
\* whose (first) error is E_ORG_UNCONFIGURED, get_root_org returns None and
\* raises nothing.
C10_UnconfiguredIsAbsence ==
    (/\ rootQuery.called
     /\ ~rootQuery.outcome.ok
     /\ rootQuery.outcome.exc.type = "TransportQueryError"
     /\ rootQuery.outcome.exc.errors[1].message = UNCONFIGURED)
        => rootOrg = [kind |-> "return", value |-> None]

\* The query failed with the single error E_ORG_UNCONFIGURED.
C10_Witness ==
    /\ rootQuery.called
    /\ ~rootQuery.outcome.ok
    /\ rootQuery.outcome.exc = TransportQueryError(<<[message |-> UNCONFIGURED]>>)
    /\ rootOrg.kind = "return"

\* C11: when the root-organisation query fails with anything but the error
\* E_ORG_UNCONFIGURED (a TransportQueryError whose first error is another
\* one, or another exception), get_root_org returns nothing and raises the
\* very exception the query raised.
C11_OtherErrorsPropagate ==
    (/\ rootQuery.called
     /\ ~rootQuery.outcome.ok
     /\ \/ rootQuery.outcome.exc.type # "TransportQueryError"
        \/ rootQuery.outcome.exc.errors[1].message # UNCONFIGURED)
        => rootOrg = [kind |-> "raise", exc |-> rootQuery.outcome.exc]

\* The query failed with the single error E_NOT_FOUND, which was raised.
C11_Witness ==
    /\ rootQuery.called
    /\ ~rootQuery.outcome.ok
    /\ rootQuery.outcome.exc =
            TransportQueryError(<<[message |-> "ErrorCodes.E_NOT_FOUND"]>>)
    /\ rootOrg.kind = "raise"

\* The index of a list of classes: class key -> identifier.
IndexOf(classes) ==
    DictComprehension(
        [j \in 1..Len(classes) |->
            [key |-> classes[j].user_key, val |-> classes[j].uuid]],
        Len(classes))

\* The tree a fetch of registry reg yields: one entry per facet in listed
\* order, the index of the facet's own classes.
TreeOf(reg) ==
    [i \in 1..Len(reg) |-> [key |-> reg[i].user_key, val |-> IndexOf(reg[i].classes)]]

\* C12: a run decides between create and update, and issues mutation calls,
\* only when every per-facet query it dispatched has completed: the tree the
\* Reconciler reads has the class list of every facet of the registry.
C12_ReconcilerReadsWholeTree ==
    \A p \in Runs :
        (Reconciling(p) \/ run[p].calls # <<>>) =>
            /\ run[p].pending = {}
            /\ Len(run[p].classes) = Len(run[p].before)
            /\ \A i \in 1..Len(run[p].before) :
                    /\ DictHas(run[p].classes, run[p].before[i].user_key)
                    /\ Len(DictGet(run[p].classes, run[p].before[i].user_key))
                            = Len(run[p].before[i].classes)

\* A run that issued a call after fetching two facets that both hold
\* classes.
C12_Witness ==
    \E p \in Runs :
        /\ run[p].calls # <<>>
        /\ Len(run[p].before) = 2
        /\ run[p].before[1].classes # <<>>
        /\ run[p].before[2].classes # <<>>

\* C14: whatever the order in which the per-facet queries complete, the
\* response kept for a facet key is the one of the query made for that
\* facet, and the result of get_classes has exactly one entry per facet key,
\* in the order of the keys, built from that facet's own classes (an empty
\* mapping for a facet without classes).
C14_EntriesMatchTheirFacet ==
    \A p \in Runs :
        LET r == run[p]
            keys == DictKeys(r.facets)
        IN  /\ r.pc = "get_classes" =>
                /\ \A i \in (1..Len(keys)) \ r.pending :
                        /\ HasFacet(r.before, keys[i])
                        /\ r.responses[i] = FacetOf(r.before, keys[i]).classes
                /\ r.pending = {} =>
                        get_classes(r.facets, Gather(r.responses, r.completed))
                            = TreeOf(r.before)
            /\ Reconciling(p) => r.classes = TreeOf(r.before)

\* The query of the second facet completed before the query of the first,
\* which holds no class while the second does.
C14_Witness ==
    \E p \in Runs :
        /\ run[p].pc = "get_classes"
        /\ run[p].pending = {}
        /\ run[p].completed = <<2, 1>>
        /\ run[p].before[1].classes = <<>>
        /\ run[p].before[2].classes # <<>>

\* No two classes of one facet share a natural key.
UniqueKeys(reg) ==
    \A i \in 1..Len(reg) : \A j, k \in 1..Len(reg[i].classes) :
        reg[i].classes[j].user_key = reg[i].classes[k].user_key => j = k

\* C15: with one invocation at a time, a run issues a create for a (facet,
\* class) key only when its fetch found no class with that key under that
\* facet, and at most once per key; natural keys that were unique within
\* every facet before the run are unique after it, completed or aborted.
C15_CreateOnlyWhenAbsent ==
    \A p \in Runs :
        LET r == run[p]
            want == Desired(p)
        IN  /\ \A i \in 1..Len(r.calls) :
                    r.calls[i].doc = "create" =>
                        /\ ~DictHas(DictGet(r.classes, want[i][1]), want[i][2])
                        /\ ClassesAt(r.before, want[i][1], want[i][2]) = {}
                        /\ \A j \in 1..Len(r.calls) :
                            (/\ r.calls[j].doc = "create"
                             /\ r.calls[j].vars.facet_uuid = r.calls[i].vars.facet_uuid
                             /\ r.calls[j].vars.user_key = r.calls[i].vars.user_key)
                                => j = i
            /\ (Started(p) /\ UniqueKeys(r.before)) => UniqueKeys(After(p))

\* A finished run that created a class in a facet that held another one.
C15_Witness ==
    \E p \in Runs : \E i \in 1..Len(run[p].calls) :
        /\ Finished(run[p])
        /\ run[p].calls[i].doc = "create"
        /\ ~Failed(run[p].calls[i])
        /\ FacetOf(run[p].before, Desired(p)[i][1]).classes # <<>>

\* The registry after the writes of one uninterrupted run without failure
\* that fetched the tree `classes` and still has to write from class ci of
\* facet fi on.
RECURSIVE WriteAll(_, _, _, _, _, _)
WriteAll(reg, desired, facets, classes, fi, ci) ==
    LET at == Settle(desired, classes, fi, ci)
    IN  IF at.pc = "reconcile"
        THEN WriteAll(Apply(reg, MutationCall(desired, facets, classes, at.fi, at.ci)),
                      desired, facets, classes, at.fi, at.ci + 1)
        ELSE reg

ReconcileAll(reg, desired) ==
    WriteAll(reg, desired,
             [i \in 1..Len(reg) |-> [key |-> reg[i].user_key, val |-> reg[i].uuid]],
             TreeOf(reg), 1, 1)

\* C16: the writes of the calls that succeeded before a run aborted stay in
\* the registry; a later run with the same configuration issues updates for
\* the classes the aborted run wrote, creates only classes the registry still
\* lacks, and when it completes the registry is what one uninterrupted run
\* from the registry before the aborted run would have left.
C16_RerunAfterAbortConverges ==
    /\ \A p \in Runs :
        run[p].pc = "raised" =>
            LET want == Desired(p)
                after == After(p)
            IN  \A i \in 1..Len(run[p].calls) :
                    ~Failed(run[p].calls[i]) =>
                        \E c \in ClassesAt(after, want[i][1], want[i][2]) :
                            /\ c.name = DesiredClass(p, want[i]).title
                            /\ c.scope = DesiredClass(p, want[i]).scope
    /\ \A p \in Runs \ {1} :
        (/\ run[p - 1].pc = "raised"
         /\ Reconciling(p)
         /\ run[p].desired = run[p - 1].desired) =>
            LET want == Desired(p)
                prev == run[p - 1]
                written == {i \in 1..Len(prev.calls) : ~Failed(prev.calls[i])}
            IN  /\ \A i \in 1..Len(run[p].calls) :
                        /\ i \in written => run[p].calls[i].doc = "update"
                        /\ run[p].calls[i].doc = "create"
                            => ClassesAt(run[p].before, want[i][1], want[i][2]) = {}
                /\ run[p].pc = "done"
                    => After(p) = ReconcileAll(prev.before, run[p].desired)

\* A run created a class and aborted on its second call; the next run
\* updated that class, created the missing one and completed.
C16_Witness ==
    \E p \in Runs \ {1} :
        /\ run[p - 1].pc = "raised"
        /\ Len(run[p - 1].calls) = 2
        /\ run[p - 1].calls[1].doc = "create"
        /\ run[p].pc = "done"
        /\ run[p].calls[1].doc = "update"
        /\ run[p].calls[2].doc = "create"

\* C18: on a TransportQueryError the first error alone decides: get_root_org
\* returns None exactly when the message of the first error is
\* "ErrorCodes.E_ORG_UNCONFIGURED" and raises the exception again otherwise,
\* whatever the later errors are.
C18_FirstEntryDecides ==
    (/\ rootQuery.called
     /\ ~rootQuery.outcome.ok
     /\ rootQuery.outcome.exc.type = "TransportQueryError") =>
        LET exc == rootQuery.outcome.exc
            later == {exc.errors[i].message : i \in 2..Len(exc.errors)}
        IN  /\ rootOrg = [kind |-> "return", value |-> None]
                <=> exc.errors[1].message = UNCONFIGURED
            /\ rootOrg = [kind |-> "raise", exc |-> exc]
                <=> exc.errors[1].message # UNCONFIGURED
            /\ (UNCONFIGURED \in later /\ exc.errors[1].message # UNCONFIGURED)
                => rootOrg.kind = "raise"

\* The error carried E_ORG_UNCONFIGURED at the second position only, and was
\* raised again.
C18_Witness ==
    /\ rootQuery.called
    /\ ~rootQuery.outcome.ok
    /\ rootQuery.outcome.exc =
            TransportQueryError(<<[message |-> "ErrorCodes.E_NOT_FOUND"],
                                  [message |-> UNCONFIGURED]>>)
    /\ rootOrg = [kind |-> "raise", exc |-> rootQuery.outcome.exc]

\* ------------------------------------------- the fetch as one nested query
\* The result of the query that lists the facets with their classes:
\* {"facets": {"objects": [{"current": {uuid, user_key, classes}}, ...]}}.
QueryResult(reg) ==
    [facets |->
        [objects |->
            [i \in 1..Len(reg) |->
                [current |->
                    [uuid |-> reg[i].uuid,
                     user_key |-> reg[i].user_key,
                     classes |-> [j \in 1..Len(reg[i].classes) |->
                                    [uuid |-> reg[i].classes[j].uuid,
                                     user_key |-> reg[i].classes[j].user_key,
                                     name |-> reg[i].classes[j].name,
                                     scope |-> reg[i].classes[j].scope]]]]]]]

Class(uuid, user_key, name, scope) ==
    [uuid |-> uuid, user_key |-> user_key, name |-> name, scope |-> scope]

Facet(uuid, user_key, classes) ==
    [uuid |-> uuid, user_key |-> user_key, classes |-> classes]

\* The parsing listing the classes of every facet last to first.
classes_get_classes_reversed(result) ==
    LET objects == result.facets.objects
    IN  [i \in 1..Len(objects) |->
            LET current == objects[i].current
                n == Len(current.classes)
            IN  Facet(current.uuid, current.user_key,
                      [j \in 1..n |->
                          LET c == current.classes[n + 1 - j]
                          IN  Class(c.uuid, c.user_key, c.name, c.scope)])]

\* os2mo_init.classes.get_classes: the Facet of every listed object, with the
\* Class of every class listed for it.
classes_get_classes(result) ==
    LET objects == result.facets.objects
    IN  [i \in 1..Len(objects) |->
            LET current == objects[i].current
            IN  Facet(current.uuid, current.user_key,
                      [j \in 1..Len(current.classes) |->
                          LET c == current.classes[j]
                          IN  Class(c.uuid, c.user_key, c.name, c.scope)])]

\* The registries the query is answered from: the ones a run can meet, and
\* the ones runs leave.
ListedRegistries ==
    {ReconcileAll(reg, desired) : reg \in RemoteStates, desired \in Configs}

InitFetch ==
    /\ remote \in ListedRegistries
    /\ rootQuery = [called |-> FALSE]
    /\ rootOrg = [kind |-> "not_called"]
    /\ configFile = [loaded |-> FALSE, classes |-> <<>>]
    /\ run = [p \in Runs |-> IdleRun]

\* An invocation fetches the tree with the one query.
GetClassesGraphQL(p) ==
    /\ run[p].pc = "idle"
    /\ run' = [run EXCEPT ![p] =
            [@ EXCEPT !.pc = "fetched",
                      !.before = remote,
                      !.tree = classes_get_classes(QueryResult(remote))]]
    /\ UNCHANGED <<remote, rootQuery, rootOrg, configFile>>

NextFetch == \E p \in Runs : GetClassesGraphQL(p)

SpecFetch == InitFetch /\ [][NextFetch]_vars

Invocations == {1, 2}

NextConcurrent ==
    \/ GetRootOrg
    \/ \E p \in Invocations : FetchFacets(p)
    \/ \E p \in Invocations : \E i \in 1..Cardinality(FacetKeys) : ClassQueryDone(p, i)
    \/ \E p \in Invocations : EnsureClasses(p)
    \/ \E p \in Invocations : MutationOk(p)
    \/ \E p \in Invocations : \E exc \in MutationErrors : MutationFails(p, exc)

SpecConcurrent == Init /\ [][NextConcurrent]_vars

\* The invocations whose create of a class with key ck under facet fk
\* succeeded.
Creators(fk, ck) ==
    {p \in Invocations :
        \E i \in 1..Len(run[p].calls) :
            /\ run[p].calls[i].doc = "create"
            /\ ~Failed(run[p].calls[i])
            /\ Desired(p)[i] = <<fk, ck>>}

\* C17: nothing protects the uniqueness of natural keys against concurrent
\* invocations: the registry can come to hold several classes with one key
\* under one facet, and when it does, each of them was created by a
\* different one of the interleaved invocations, whose fetch had found no
\* class with that key under that facet; every invocation on its own still
\* creates a key at most once.
C17_ConcurrentRunsDuplicate ==
    \A fk \in FacetKeys : \A ck \in ClassKeys :
        LET held == ClassesAt(remote, fk, ck)
            creators == Creators(fk, ck)
        IN  /\ Cardinality(held) > 1 =>
                /\ Cardinality(creators) = Cardinality(held)
                /\ \A p \in creators :
                    /\ ~DictHas(DictGet(run[p].classes, fk), ck)
                    /\ \A q \in creators \ {p} :
                            ClassesAt(run[q].before, fk, ck) = {}
            /\ \A p \in Invocations :
                    Cardinality({i \in 1..Len(run[p].calls) :
                                    /\ run[p].calls[i].doc = "create"
                                    /\ Desired(p)[i] = <<fk, ck>>}) <= 1

\* Both invocations have completed and the registry holds two classes with
\* one natural key under one facet.
C17_Witness ==
    /\ \A p \in Invocations : run[p].pc = "done"
    /\ \E fk \in FacetKeys : \E ck \in ClassKeys :
            Cardinality(ClassesAt(remote, fk, ck)) = 2

====
